---- MODULE Spec2Model ----
(***************************************************************************)
(* A model of memc_load.py: the loader that reads tab-separated log files  *)
(* of installed applications, parses every line, routes it by device type  *)
(* to a memcached address, writes it, rates the file and renames it.       *)
(*                                                                         *)
(* Text is a sequence of atoms.  An atom is a character ("\t", "\n", " ",  *)
(* ",", ":", ".", "*", a decimal digit) or an indivisible word ("idfa",    *)
(* "dev1", "55.55", "abc").  strip, split, int and float work on these     *)
(* sequences the way the Python built-ins work on strings.                 *)
(***************************************************************************)
EXTENDS Integers, Sequences, FiniteSets, TLC

VARIABLES
    hl,             \* one call of handle_line: its arguments and its result
    rt,             \* one call of calculate_raiting: its argument and its result
    disk,           \* the directory: inode -> [name, lines]
    options,        \* the parsed command line: [dry, pattern]
    run,            \* [n, st, exit]: number of the run, its position, its exit code
    files_to_work,  \* main: the sorted glob match of the current run
    ftask,          \* per position of files_to_work: the process_file call, with
                    \* ret, what handle_line returned for each line, and fin, the
                    \* chunks of lines in the order they were finished
    fpool,          \* main's ThreadPool and the MapResult of its pool.map
    writes,         \* the calls of insert_appsinstalled of the current run that
                    \* reached the store step
    memc,           \* the stores: the (address, key) pairs that hold a value
    earlier         \* what the run before the current one left behind: the files
                    \* whose process_file raised and the store writes it attempted

vars == <<hl, rt, disk, options, run, files_to_work, ftask, fpool, writes, memc, earlier>>

-----------------------------------------------------------------------------
(* Program constants.                                                      *)

MAX_FILE_THREADS == 2
MAX_LINE_THREADS == 4
\* NORMAL_ERR_RATE = 0.01, kept as the fraction 1/100
NORMAL_ERR_RATE_NUM == 1
NORMAL_ERR_RATE_DEN == 100

\* class HandleLineResult
SKIP == "SKIP"
OK == "OK"
ERROR == "ERROR"
\* not a member of the enumeration: the call did not return, it raised
RAISED == "RAISED"

HandleLineResult == {SKIP, OK, ERROR}

-----------------------------------------------------------------------------
(* Python's string built-ins on sequences of atoms.                        *)

Whitespace == {" ", "\t", "\n"}
Digits == {"7", "8"}
FloatWords == {"55.55", "42.42"}

SetMin(S) == CHOOSE m \in S : \A k \in S : m <= k
SetMax(S) == CHOOSE m \in S : \A k \in S : m >= k

\* str.strip(): leading and trailing whitespace removed
Strip(s) ==
    LET keep == {i \in 1..Len(s) : s[i] \notin Whitespace}
    IN  IF keep = {} THEN <<>> ELSE SubSeq(s, SetMin(keep), SetMax(keep))

\* str.split(sep): always at least one part
RECURSIVE Split(_, _)
Split(s, sep) ==
    LET at == {i \in 1..Len(s) : s[i] = sep}
    IN  IF at = {} THEN <<s>>
        ELSE <<SubSeq(s, 1, SetMin(at) - 1)>>
               \o Split(SubSeq(s, SetMin(at) + 1, Len(s)), sep)

\* int(text) succeeds: optional surrounding whitespace, then decimal digits
IsIntText(t) ==
    LET u == Strip(t) IN Len(u) >= 1 /\ \A i \in 1..Len(u) : u[i] \in Digits

DigitValue(d) == IF d = "7" THEN 7 ELSE 8

\* int(text) for a text IsIntText accepts
RECURSIVE DecimalValue(_)
DecimalValue(u) ==
    IF u = <<>> THEN 0
    ELSE 10 * DecimalValue(SubSeq(u, 1, Len(u) - 1)) + DigitValue(u[Len(u)])

IntOf(t) == DecimalValue(Strip(t))

\* float(text) succeeds: an integer text or a decimal fraction
IsFloatText(t) ==
    LET u == Strip(t) IN IsIntText(u) \/ (Len(u) = 1 /\ u[1] \in FloatWords)

\* Python values that a field of AppsInstalled can hold
PyStr(s) == [type |-> "str", text |-> s]
PyFloat(t) == [type |-> "float", text |-> Strip(t)]

-----------------------------------------------------------------------------
(* parse_appsinstalled                                                     *)

NoRecord == [dev_type |-> <<>>, dev_id |-> <<>>, lat |-> PyStr(<<>>),
             lon |-> PyStr(<<>>), apps |-> <<>>]

ParseNone == [tag |-> "None", rec |-> NoRecord]
ParseRaise(exc) == [tag |-> exc, rec |-> NoRecord]

\* lines 68-72: the list comprehension, and under ValueError the second one,
\* which calls the str method isidigit
ParseApps(raw_apps) ==
    LET toks == Split(raw_apps, ",")
    IN  IF \A i \in 1..Len(toks) : IsIntText(toks[i])
        THEN [tag |-> "ok", apps |-> [i \in 1..Len(toks) |-> IntOf(toks[i])]]
        ELSE [tag |-> "AttributeError", apps |-> <<>>]

\* lines 73-76: both converted or, under ValueError, both left as they were
ParseGeo(lat, lon) ==
    IF IsFloatText(lat) /\ IsFloatText(lon)
    THEN [lat |-> PyFloat(lat), lon |-> PyFloat(lon)]
    ELSE [lat |-> PyStr(lat), lon |-> PyStr(lon)]

parse_appsinstalled(line) ==
    LET line_parts == Split(Strip(line), "\t")
    IN  IF Len(line_parts) < 5 THEN ParseNone
        ELSE IF Len(line_parts) # 5 THEN ParseRaise("ValueError")
        ELSE IF line_parts[1] = <<>> \/ line_parts[2] = <<>> THEN ParseNone
        ELSE LET a == ParseApps(line_parts[5])
                 g == ParseGeo(line_parts[3], line_parts[4])
             IN  IF a.tag # "ok" THEN ParseRaise(a.tag)
                 ELSE [tag |-> "AppsInstalled",
                       rec |-> [dev_type |-> line_parts[1],
                                dev_id |-> line_parts[2],
                                lat |-> g.lat, lon |-> g.lon,
                                apps |-> a.apps]]

-----------------------------------------------------------------------------
(* insert_appsinstalled                                                    *)

\* what memcache.Client.set can do: store the value and return a true value,
\* fail and return a false value, or raise
StoreOutcomes == {"stored", "not_stored", "raises"}

\* the double fields lat and lon of UserApps take a float only
UserAppsAccepts(rec) == rec.lat.type = "float" /\ rec.lon.type = "float"

\* line 44
Key(rec) == rec.dev_type \o <<":">> \o rec.dev_id

\* The result of one call: ret is TRUE, FALSE or RAISED; attempt is the set
\* holding the store step the call reached (lines 50-54), if it reached one.
insert_appsinstalled(memc_addr, rec, dry_run, store) ==
    IF ~UserAppsAccepts(rec)
    THEN [ret |-> RAISED, attempt |-> {}]
    ELSE LET at == [addr |-> memc_addr, key |-> Key(rec), dry |-> dry_run,
                    outcome |-> IF dry_run THEN "logged" ELSE store]
         IN  IF ~dry_run /\ store = "raises"
             THEN [ret |-> "False", attempt |-> {at}]
             ELSE [ret |-> "True", attempt |-> {at}]

-----------------------------------------------------------------------------
(* handle_line                                                             *)

\* main, lines 128-133, with the default addresses of lines 163-166
device_memc ==
    [k \in {<<"idfa">>, <<"gaid">>, <<"adid">>, <<"dvid">>} |->
        CASE k = <<"idfa">> -> "127.0.0.1:33013"
          [] k = <<"gaid">> -> "127.0.0.1:33014"
          [] k = <<"adid">> -> "127.0.0.1:33015"
          [] k = <<"dvid">> -> "127.0.0.1:33016"]

\* dict.get: None for a missing key
DictGet(d, k) == IF k \in DOMAIN d THEN d[k] ELSE "None"

\* a lookup that falls back to the first address for an unknown device type
RouteWithDefault(dev_type) ==
    IF dev_type \in DOMAIN device_memc THEN device_memc[dev_type]
    ELSE device_memc[<<"idfa">>]

\* lines 91-92
Route(dev_type) == DictGet(device_memc, dev_type)

\* [ret, attempt]: the HandleLineResult returned (RAISED when the call
\* raised instead) and the store step reached, if any
handle_line(line, dry, store) ==
    IF Strip(line) = <<>> THEN [ret |-> SKIP, attempt |-> {}]
    ELSE LET p == parse_appsinstalled(Strip(line))
         IN  IF p.tag = "None" THEN [ret |-> ERROR, attempt |-> {}]
             ELSE IF p.tag # "AppsInstalled" THEN [ret |-> RAISED, attempt |-> {}]
             ELSE LET memc_addr == Route(p.rec.dev_type)
                  IN  IF memc_addr = "None" THEN [ret |-> ERROR, attempt |-> {}]
                      ELSE LET w == insert_appsinstalled(memc_addr, p.rec, dry, store)
                           IN  [ret |-> IF w.ret = RAISED THEN RAISED
                                        ELSE IF w.ret = "True" THEN OK ELSE ERROR,
                                attempt |-> w.attempt]

-----------------------------------------------------------------------------
(* calculate_raiting                                                       *)

\* bool(member) of an Enum without a mixed-in type: every member is true
EnumTruth(member) == member \in HandleLineResult

\* lines 101-105, one pass of the loop body
CountResult(c, result) ==
    IF result = OK THEN [c EXCEPT !.processed = @ + 1]
    ELSE IF EnumTruth(ERROR) THEN [c EXCEPT !.errors = @ + 1]
    ELSE c

RECURSIVE CountResults(_)
CountResults(results) ==
    IF results = <<>> THEN [processed |-> 0, errors |-> 0]
    ELSE CountResult(CountResults(SubSeq(results, 1, Len(results) - 1)),
                     results[Len(results)])

\* lines 108-109: float(errors) / processed < NORMAL_ERR_RATE, for processed > 0
BelowNormalErrRate(errors, processed) ==
    errors * NORMAL_ERR_RATE_DEN < NORMAL_ERR_RATE_NUM * processed

\* what the call logs: "none", "success" (line 110) or "failed" (line 112)
calculate_raiting(results) ==
    LET c == CountResults(results)
    IN  [processed |-> c.processed, errors |-> c.errors,
         verdict |-> IF c.processed = 0 THEN "none"
                     ELSE IF BelowNormalErrRate(c.errors, c.processed)
                          THEN "success" ELSE "failed"]

-----------------------------------------------------------------------------
(* The input lines of the model.                                           *)

MaxFields == 6
MaxResults == 5

DevTypeTexts == {<<"idfa">>, <<"gaid">>, <<"xxxx">>, <<"IDFA">>, <<>>}
DevIdTexts == {<<"dev1">>, <<>>}
LatTexts == {<<"55.55">>, <<"abc">>}
LonTexts == {<<"42.42">>, <<"abc">>}
AppsTexts == {<<"7">>, <<"7", ",", "8">>, <<"7", ",", " ", "8", "7">>,
              <<"7", ",", "abc">>, <<"abc">>, <<>>}
ExtraTexts == {<<"x">>}

FieldTexts(i) ==
    CASE i = 1 -> DevTypeTexts
      [] i = 2 -> DevIdTexts
      [] i = 3 -> LatTexts
      [] i = 4 -> LonTexts
      [] i = 5 -> AppsTexts
      [] OTHER -> ExtraTexts

RECURSIVE FieldLists(_)
FieldLists(n) ==
    IF n = 0 THEN {<<>>}
    ELSE {Append(p, x) : p \in FieldLists(n - 1), x \in FieldTexts(n)}

RECURSIVE JoinTab(_)
JoinTab(fields) ==
    IF Len(fields) = 0 THEN <<>>
    ELSE IF Len(fields) = 1 THEN fields[1]
    ELSE fields[1] \o <<"\t">> \o JoinTab(Tail(fields))

\* a line as iterating the file yields it: the text and its line feed
LineTexts ==
    {JoinTab(fl) \o <<"\n">> : fl \in UNION {FieldLists(n) : n \in 0..MaxFields}}
    \cup {<<>>, <<" ", "\n">>, <<" ", "idfa", "\t", "dev1", "\t", "55.55", "\t",
                                  "42.42", "\t", "7", " ", "\n">>,
          <<"\t", "idfa", "\t", "dev1", "\t", "55.55", "\t", "42.42", "\t", "7", "\n">>}

RECURSIVE SeqsUpTo(_, _)
SeqsUpTo(S, n) ==
    IF n = 0 THEN {<<>>}
    ELSE SeqsUpTo(S, n - 1)
         \cup {Append(p, x) : p \in {q \in SeqsUpTo(S, n - 1) : Len(q) = n - 1}, x \in S}

-----------------------------------------------------------------------------
(* multiprocessing.pool: the part of Pool.map the program relies on.       *)

Ceil(a, b) == (a + b - 1) \div b

\* Pool._map_async: chunksize, extra = divmod(len(iterable), len(pool) * 4)
ChunkSize(n, poolsize) == IF n = 0 THEN 0 ELSE Ceil(n, poolsize * 4)

\* MapResult.__init__: the number of tasks (chunks) of the call
NumberLeft(n, chunksize) == IF n = 0 THEN 0 ELSE Ceil(n, chunksize)

NewMapResult(n, poolsize) ==
    [chunksize |-> ChunkSize(n, poolsize),
     length |-> n,
     left |-> NumberLeft(n, ChunkSize(n, poolsize)),
     success |-> TRUE,
     value |-> [k \in 1..n |-> "None"],
     cst |-> [c \in 1..NumberLeft(n, ChunkSize(n, poolsize)) |-> "queued"]]

NoMapResult == NewMapResult(0, 1)

\* the items of chunk c
ChunkItems(m, c) ==
    {k \in 1..m.length : (c - 1) * m.chunksize < k /\ k <= c * m.chunksize}

ChunkOf(m, k) == ((k - 1) \div m.chunksize) + 1

QueuedChunks(m) == {c \in DOMAIN m.cst : m.cst[c] = "queued"}
RunningChunks(m) == {c \in DOMAIN m.cst : m.cst[c] = "running"}

\* a pool that starts a thread for every task in its queue
CanStartUnlimited(m, poolsize, c) ==
    /\ QueuedChunks(m) # {}
    /\ c = SetMin(QueuedChunks(m))

\* a worker of the pool is free and takes the next task from the queue
CanStart(m, poolsize, c) ==
    /\ QueuedChunks(m) # {}
    /\ c = SetMin(QueuedChunks(m))
    /\ Cardinality(RunningChunks(m)) < poolsize

\* a result list filled in the order the chunks finish, not by their place
MapResultSetAsFinished(m, c, ok, result) ==
    LET slot == Cardinality({d \in DOMAIN m.cst : m.cst[d] = "done"}) + 1
        shift == (slot - c) * m.chunksize
    IN  [m EXCEPT !.left = @ - 1,
                  !.cst[c] = "done",
                  !.success = @ /\ ok,
                  !.value = IF ok /\ m.success
                            THEN [k \in 1..m.length |->
                                     IF k \in ChunkItems(m, slot)
                                     THEN IF (k - shift) \in DOMAIN result
                                          THEN result[k - shift] ELSE "None"
                                     ELSE @[k]]
                            ELSE @]

\* MapResult._set: the worker's (success, result) of chunk c arrives
MapResultSet(m, c, ok, result) ==
    [m EXCEPT !.left = @ - 1,
              !.cst[c] = "done",
              !.success = @ /\ ok,
              !.value = IF ok /\ m.success
                        THEN [k \in 1..m.length |->
                                 IF k \in ChunkItems(m, c) THEN result[k] ELSE @[k]]
                        ELSE @]

\* MapResult.get returns or raises: only once all tasks are done
MapReady(m) == m.left = 0

-----------------------------------------------------------------------------
(* dot_rename, glob.iglob and sorted on file names.                        *)

Stems == <<"a", "b", "c", "d", "e", "f", "g", "h", "i", "j", "k", "l">>

\* the order of the characters: "." sorts before every letter
AtomRank(x) ==
    IF x = "." THEN 0
    ELSE IF x = "*" THEN 0
    ELSE SetMin({i \in 1..Len(Stems) : Stems[i] = x})

RECURSIVE NameLess(_, _)
NameLess(a, b) ==
    IF b = <<>> THEN FALSE
    ELSE IF a = <<>> THEN TRUE
    ELSE IF a[1] # b[1] THEN AtomRank(a[1]) < AtomRank(b[1])
    ELSE NameLess(Tail(a), Tail(b))

\* sorted(names)
Sorted(names) ==
    [k \in 1..Cardinality(names) |->
        CHOOSE a \in names : Cardinality({b \in names : NameLess(b, a)}) = k - 1]

\* a rename that leaves the name as it is
dot_renameSameName(fn) == fn

\* line 37: the new name in the same directory
dot_rename(fn) == <<".">> \o fn

\* fnmatch: "*" matches any run of characters, the others match themselves
RECURSIVE FnMatch(_, _)
FnMatch(name, pat) ==
    IF pat = <<>> THEN name = <<>>
    ELSE IF pat[1] = "*"
         THEN FnMatch(name, Tail(pat)) \/ (name # <<>> /\ FnMatch(Tail(name), pat))
    ELSE name # <<>> /\ name[1] = pat[1] /\ FnMatch(Tail(name), Tail(pat))

\* glob._ishidden
IsHidden(text) == text # <<>> /\ text[1] = "."

\* glob._glob1: names that begin with a dot match only a pattern that does
Glob(names, pattern) ==
    {nm \in names : FnMatch(nm, pattern) /\ (IsHidden(pattern) \/ ~IsHidden(nm))}

Names(d) == {d[f].name : f \in DOMAIN d}

\* the file a path names
Lookup(d, nm) == CHOOSE f \in DOMAIN d : d[f].name = nm

-----------------------------------------------------------------------------
(* The inputs of the pipeline.                                             *)

MaxRuns == 2
MaxLinesTotal == 2
MaxWideFiles == 9

BlankLine == <<"\n">>
GoodLine == <<"idfa", "\t", "dev1", "\t", "55.55", "\t", "42.42", "\t", "7", ",", "8", "\n">>
BadLine == <<"idfa", "\t", "dev1", "\t", "55.55", "\t", "42.42", "\t", "7", "\t", "x", "\n">>

PipelineLines == {BlankLine, GoodLine, BadLine}

\* handle_line on the lines the files hold, for either mode and for every
\* way the store can answer
HandleLineOn ==
    [line \in PipelineLines, dry \in BOOLEAN, store \in StoreOutcomes |->
        handle_line(line, dry, store)]

Patterns == {<<"*">>, <<".", "*">>}

RECURSIVE TotalLines(_)
TotalLines(batch) ==
    IF batch = <<>> THEN 0 ELSE Len(batch[1]) + TotalLines(Tail(batch))

\* as many files as there are file threads, a few lines in all
SmallBatches ==
    {b \in SeqsUpTo(SeqsUpTo(PipelineLines, MaxLinesTotal), MAX_FILE_THREADS) :
        TotalLines(b) <= MaxLinesTotal}

\* many files of one blank line, at most one of them holding a bad line instead
WideBatches ==
    {[i \in 1..n |-> IF i = bad THEN <<BadLine>> ELSE <<BlankLine>>] :
        n \in 1..MaxWideFiles, bad \in 0..MaxWideFiles}

BlankLines(n) == [j \in 1..n |-> BlankLine]

\* files with as many lines as a file has line threads, and one with a line more
TallBatches ==
    {<<BlankLines(MAX_LINE_THREADS + 1)>>,
     [i \in 1..MAX_FILE_THREADS |-> BlankLines(MAX_LINE_THREADS)]}

\* in sorted order: a file that loads, files whose line raises, one of them
\* after a line that is written, and files that load
RerunSorted ==
    <<<<BlankLine>>, <<BadLine>>, <<GoodLine, BadLine>>, <<BlankLine>>,
      <<BadLine>>, <<BlankLine>>, <<BadLine>>, <<BlankLine>>,
      <<BadLine>>, <<BlankLine>>>>

RerunBatch == [f \in 1..Len(RerunSorted) |-> RerunSorted[Len(RerunSorted) + 1 - f]]

\* the directory holding the files of a batch; the directory lists them in
\* no particular order, here the reverse of the sorted one
NewDisk(batch, prefix) ==
    [f \in 1..Len(batch) |->
        [name |-> prefix \o <<Stems[Len(batch) + 1 - f]>>,
         lines |-> batch[f],
         marked |-> 0]]

-----------------------------------------------------------------------------
(* The pipeline at rest, for the specifications of a single function.      *)

NoOptions == [dry |-> FALSE, pattern |-> <<>>]

NoEarlierRun == [raised |-> {}, attempts |-> {}]

PipelineIdle ==
    /\ disk = <<>>
    /\ options = NoOptions
    /\ run = [n |-> 0, st |-> "off", exit |-> "none"]
    /\ files_to_work = <<>>
    /\ ftask = <<>>
    /\ fpool = NoMapResult
    /\ writes = {}
    /\ memc = {}
    /\ earlier = NoEarlierRun

pipeline == <<disk, options, run, files_to_work, ftask, fpool, writes, memc, earlier>>

HlIdle == hl = [st |-> "off", line |-> <<>>, dry |-> FALSE, ret |-> "none", attempt |-> {}]
RtIdle == rt = [st |-> "off", results |-> <<>>, processed |-> 0, errors |-> 0,
                verdict |-> "none"]

-----------------------------------------------------------------------------
(* SpecLine: handle_line called once on any line of LineTexts.             *)

InitLine ==
    /\ \E line \in LineTexts, dry \in BOOLEAN :
          hl = [st |-> "call", line |-> line, dry |-> dry, ret |-> "none",
                attempt |-> {}]
    /\ RtIdle
    /\ PipelineIdle

HandleLine ==
    /\ hl.st = "call"
    /\ \E store \in StoreOutcomes :
          LET r == handle_line(hl.line, hl.dry, store)
          IN  hl' = [hl EXCEPT !.st = "returned", !.ret = r.ret, !.attempt = r.attempt]
    /\ UNCHANGED <<rt, pipeline>>

NextLine == HandleLine

SpecLine == InitLine /\ [][NextLine]_vars

-----------------------------------------------------------------------------
(* SpecRate: calculate_raiting called once on any sequence of outcomes.    *)

InitRate ==
    /\ \E results \in SeqsUpTo(HandleLineResult, MaxResults) :
          rt = [st |-> "call", results |-> results, processed |-> 0, errors |-> 0,
                verdict |-> "none"]
    /\ HlIdle
    /\ PipelineIdle

RateResults ==
    /\ rt.st = "call"
    /\ LET r == calculate_raiting(rt.results)
       IN  rt' = [rt EXCEPT !.st = "returned", !.processed = r.processed,
                            !.errors = r.errors, !.verdict = r.verdict]
    /\ UNCHANGED <<hl, pipeline>>

NextRate == RateResults

SpecRate == InitRate /\ [][NextRate]_vars

-----------------------------------------------------------------------------
(* Spec: runs of the loader over a directory.                              *)

Init ==
    /\ HlIdle
    /\ RtIdle
    /\ \/ \E batch \in SmallBatches, prefix \in {<<>>, <<".">>},
             dry \in BOOLEAN, pattern \in Patterns :
             /\ disk = NewDisk(batch, prefix)
             /\ options = [dry |-> dry, pattern |-> pattern]
       \/ \E batch \in WideBatches \cup TallBatches \cup {RerunBatch} :
             /\ disk = NewDisk(batch, <<>>)
             /\ options = [dry |-> FALSE, pattern |-> <<"*">>]
    /\ run = [n |-> 1, st |-> "start", exit |-> "none"]
    /\ files_to_work = <<>>
    /\ ftask = <<>>
    /\ fpool = NoMapResult
    /\ writes = {}
    /\ memc = {}
    /\ earlier = NoEarlierRun

NewTask ==
    [st |-> "queued", ino |-> 0, lines |-> <<>>, m |-> NoMapResult, ret |-> <<>>,
     fin |-> <<>>, results |-> <<>>, verdict |-> "none"]

\* main, lines 134-136: the sorted match is handed to pool.map
Main ==
    /\ run.st = "start"
    /\ LET found == Sorted(Glob(Names(disk), options.pattern))
       IN  /\ files_to_work' = found
           /\ ftask' = [i \in 1..Len(found) |-> NewTask]
           /\ fpool' = NewMapResult(Len(found), MAX_FILE_THREADS)
    /\ run' = [run EXCEPT !.st = "map"]
    /\ UNCHANGED <<hl, rt, disk, options, writes, memc, earlier>>

\* a file worker that returns to the queue after the first file of its chunk
FileTurnChunkHead(i) ==
    /\ i = SetMin(ChunkItems(fpool, ChunkOf(fpool, i)))
    /\ CanStart(fpool, MAX_FILE_THREADS, ChunkOf(fpool, i))

\* a file worker may call process_file on files_to_work[i]: it takes the chunk
\* that i opens from the queue, or it has returned from the file before i
FileTurn(i) ==
    LET c == ChunkOf(fpool, i)
    IN  IF i = SetMin(ChunkItems(fpool, c))
        THEN CanStart(fpool, MAX_FILE_THREADS, c)
        ELSE fpool.cst[c] = "running" /\ ftask[i - 1].st = "done"

\* process_file, lines 116-119: the file is opened, its lines are read and
\* handed to the map of a fresh pool
ProcessFileStart(i) ==
    /\ run.st = "map"
    /\ ftask[i].st = "queued"
    /\ FileTurn(i)
    /\ LET f == Lookup(disk, files_to_work[i])
           lines == disk[f].lines
       IN  ftask' = [ftask EXCEPT ![i] =
                [@ EXCEPT !.st = "mapping", !.ino = f, !.lines = lines,
                          !.m = NewMapResult(Len(lines), MAX_LINE_THREADS),
                          !.ret = [j \in 1..Len(lines) |-> "none"]]]
    /\ fpool' = [fpool EXCEPT !.cst[ChunkOf(fpool, i)] = "running"]
    /\ UNCHANGED <<hl, rt, disk, options, run, files_to_work, writes, memc, earlier>>

\* a line worker takes the next chunk of lines
LineChunkStart(i, c) ==
    /\ ftask[i].st = "mapping"
    /\ CanStart(ftask[i].m, MAX_LINE_THREADS, c)
    /\ ftask' = [ftask EXCEPT ![i].m.cst[c] = "running"]
    /\ UNCHANGED <<hl, rt, disk, options, run, files_to_work, fpool, writes, memc, earlier>>

\* mapstar: the lines of the chunk are handled one after the other; a line
\* that raises ends the chunk, whose later lines are not handled
Handled(items, h) ==
    {j \in items : \A k \in items : (k < j) => (h[k].ret # RAISED)}

\* the line worker returns from chunk c: handle_line ran on its lines, each
\* store write ending as the store decided, and the result is set
LineChunkFinish(i, c) ==
    /\ ftask[i].st = "mapping"
    /\ ftask[i].m.cst[c] = "running"
    /\ LET t == ftask[i]
           items == ChunkItems(t.m, c)
       IN  \E store \in [items -> StoreOutcomes] :
             LET h == [j \in items |-> HandleLineOn[t.lines[j], options.dry, store[j]]]
                 done == Handled(items, h)
                 ok == \A j \in items : h[j].ret # RAISED
             IN  /\ ftask' = [ftask EXCEPT ![i] =
                        [@ EXCEPT !.m = MapResultSet(t.m, c, ok, [j \in items |-> h[j].ret]),
                                  !.ret = [j \in 1..Len(t.lines) |->
                                              IF j \in done THEN h[j].ret ELSE @[j]],
                                  !.fin = Append(@, c)]]
                 /\ writes' = writes \cup UNION
                        {{[run |-> run.n, ino |-> t.ino, line |-> j, at |-> a] :
                             a \in h[j].attempt} : j \in done}
                 /\ memc' = memc \cup
                        {[addr |-> a.addr, key |-> a.key] :
                            a \in {b \in UNION {h[j].attempt : j \in done} :
                                      b.outcome = "stored"}}
    /\ UNCHANGED <<hl, rt, disk, options, run, files_to_work, fpool, earlier>>

\* the file worker's task ends: the last file of its chunk returned, or a
\* file of it raised and the rest of the chunk is dropped
FileChunkSet(i, ok) ==
    IF ok /\ i # SetMax(ChunkItems(fpool, ChunkOf(fpool, i)))
    THEN fpool
    ELSE MapResultSet(fpool, ChunkOf(fpool, i), ok,
                      [k \in ChunkItems(fpool, ChunkOf(fpool, i)) |-> "None"])

\* a map that does not wait for its tasks
MapReturnsAtOnce(t) == t.st = "mapping"

\* process_file, line 119: pool.map blocks until the MapResult is ready
MapReturns(t) == t.st = "mapping" /\ MapReady(t.m)

\* process_file, lines 119-121: pool.map returns the results, or raises the
\* first exception of a line, which process_file does not catch
MapReturn(i) ==
    /\ MapReturns(ftask[i])
    /\ IF ftask[i].m.success
       THEN /\ ftask' = [ftask EXCEPT ![i].st = "collected",
                                      ![i].results = ftask[i].m.value]
            /\ UNCHANGED fpool
       ELSE /\ ftask' = [ftask EXCEPT ![i].st = "raised"]
            /\ fpool' = FileChunkSet(i, FALSE)
    /\ UNCHANGED <<hl, rt, disk, options, run, files_to_work, writes, memc, earlier>>

\* a rename that a failed load holds back
CanRenameIfAccepted(t) ==
    t.st = "collected" /\ calculate_raiting(t.results).verdict # "failed"

\* process_file, line 123
CanRename(t) == t.st = "collected"

Rename(i) ==
    /\ CanRename(ftask[i])
    /\ disk' = [disk EXCEPT ![ftask[i].ino].name = dot_rename(@),
                            ![ftask[i].ino].marked = run.n]
    /\ ftask' = [ftask EXCEPT ![i].st = "renamed"]
    /\ UNCHANGED <<hl, rt, options, run, files_to_work, fpool, writes, memc, earlier>>

\* process_file, line 124, and its return to the file worker
Rate(i) ==
    /\ ftask[i].st = "renamed"
    /\ ftask' = [ftask EXCEPT ![i].st = "done",
                              ![i].verdict = calculate_raiting(ftask[i].results).verdict]
    /\ fpool' = FileChunkSet(i, TRUE)
    /\ UNCHANGED <<hl, rt, disk, options, run, files_to_work, writes, memc, earlier>>

\* an exit status that hides the exception
ExitStatusZero(success) == 0

\* lines 175-179: main returned and the script ends, or main raised and the
\* handler calls sys.exit(1)
ExitStatus(success) == IF success THEN 0 ELSE 1

\* main, lines 136-138, and lines 175-179: pool.map returns and the process
\* ends with 0, or raises the first exception of a file and it ends with 1
MainReturn ==
    /\ run.st = "map"
    /\ MapReady(fpool)
    /\ run' = [run EXCEPT !.st = "exited", !.exit = ExitStatus(fpool.success)]
    /\ UNCHANGED <<hl, rt, disk, options, files_to_work, ftask, fpool, writes, memc, earlier>>

\* the loader is started again with the same options
NextRun ==
    /\ run.st = "exited"
    /\ run.n < MaxRuns
    /\ run' = [n |-> run.n + 1, st |-> "start", exit |-> "none"]
    /\ files_to_work' = <<>>
    /\ ftask' = <<>>
    /\ fpool' = NoMapResult
    /\ writes' = {}
    /\ earlier' =
          [raised |-> {ftask[i].ino : i \in {k \in DOMAIN ftask : ftask[k].st = "raised"}},
           attempts |-> {[ino |-> w.ino, line |-> w.line, addr |-> w.at.addr,
                          key |-> w.at.key] :
                            w \in {v \in writes : v.at.outcome # "logged"}}]
    /\ UNCHANGED <<hl, rt, disk, options, memc>>

Next ==
    \/ Main
    \/ \E i \in DOMAIN ftask : ProcessFileStart(i)
    \/ \E i \in DOMAIN ftask : \E c \in DOMAIN ftask[i].m.cst : LineChunkStart(i, c)
    \/ \E i \in DOMAIN ftask : \E c \in DOMAIN ftask[i].m.cst : LineChunkFinish(i, c)
    \/ \E i \in DOMAIN ftask : MapReturn(i)
    \/ \E i \in DOMAIN ftask : Rename(i)
    \/ \E i \in DOMAIN ftask : Rate(i)
    \/ MainReturn
    \/ NextRun

Spec == Init /\ [][Next]_vars

\* the steps of a run: every thread that can take a step is scheduled, and a
\* store write that was begun returns or raises
RunStep ==
    \/ Main
    \/ \E i \in DOMAIN ftask : ProcessFileStart(i)
    \/ \E i \in DOMAIN ftask : \E c \in DOMAIN ftask[i].m.cst : LineChunkStart(i, c)
    \/ \E i \in DOMAIN ftask : \E c \in DOMAIN ftask[i].m.cst : LineChunkFinish(i, c)
    \/ \E i \in DOMAIN ftask : MapReturn(i)
    \/ \E i \in DOMAIN ftask : Rename(i)
    \/ \E i \in DOMAIN ftask : Rate(i)
    \/ MainReturn

\* the directories whose files the pattern "*" matches
InitFair ==
    /\ Init
    /\ ~IsHidden(options.pattern)
    /\ \A f \in DOMAIN disk : ~IsHidden(disk[f].name)

\* whether the loader is started again is up to its user
SpecFair == InitFair /\ [][Next]_vars /\ WF_vars(RunStep)

-----------------------------------------------------------------------------
(* The claims.                                                             *)

\* the results of process_file call t were collected by its pool.map
Collected(t) == t.st \in {"collected", "renamed", "done"}

\* the file of call t carries the completion marker of this run
MarkedNow(t) ==
    t.ino # 0 /\ disk[t.ino].marked = run.n /\ IsHidden(disk[t.ino].name)

\* C1: a file is renamed only after every one of its lines has been handled
\* and its outcome collected: in no reachable state is a file renamed by the
\* current run while a chunk of its lines is queued or running or a line has
\* no outcome.
C1_RenameAfterLines ==
    \A i \in DOMAIN ftask :
        MarkedNow(ftask[i]) =>
            /\ \A c \in DOMAIN ftask[i].m.cst : ftask[i].m.cst[c] = "done"
            /\ \A j \in 1..Len(ftask[i].lines) : ftask[i].ret[j] \in HandleLineResult
            /\ Len(ftask[i].results) = Len(ftask[i].lines)

\* a file of two lines is renamed, its second line having finished first
C1_Witness ==
    \E i \in DOMAIN ftask :
        /\ ftask[i].st = "renamed" /\ MarkedNow(ftask[i])
        /\ Len(ftask[i].lines) = 2 /\ ftask[i].fin = <<2, 1>>

\* C2: for every line text, handle_line returns Skip, Ok or Error and never
\* raises.
C2_LineNeverRaises ==
    hl.st = "returned" => hl.ret \in HandleLineResult

RECURSIVE CountOf(_, _)
CountOf(results, x) ==
    IF results = <<>> THEN 0
    ELSE CountOf(Tail(results), x) + (IF results[1] = x THEN 1 ELSE 0)

WithoutSkips(results) == SelectSeq(results, LAMBDA r : r # SKIP)

\* C3: Skip outcomes count neither as processed nor as errors: the counts
\* and the verdict of a sequence of outcomes are those of the sequence with
\* its Skip outcomes removed.
C3_SkipNotCounted ==
    rt.st = "returned" =>
        /\ rt.processed = CountOf(rt.results, OK)
        /\ rt.errors = CountOf(rt.results, ERROR)
        /\ rt.verdict = calculate_raiting(WithoutSkips(rt.results)).verdict

\* C4: every file whose outcomes were collected is renamed whatever its
\* verdict: the rename of a collected file is enabled whatever its outcomes
\* are, a file is rated only once it is renamed, and when the run ends no
\* collected file is left without the marker.
C4_RenameWhateverVerdict ==
    \A i \in DOMAIN ftask :
        /\ ftask[i].st = "collected" => ENABLED Rename(i)
        /\ ftask[i].st \in {"renamed", "done"} => MarkedNow(ftask[i])
        /\ ftask[i].verdict # "none" => MarkedNow(ftask[i])
        /\ (run.st = "exited" /\ Collected(ftask[i])) => MarkedNow(ftask[i])

\* a file with a failed load is renamed and rated
C4_Witness ==
    \E i \in DOMAIN ftask :
        /\ ftask[i].st = "done" /\ ftask[i].verdict = "failed"
        /\ MarkedNow(ftask[i])

\* C5: a store write that fails, by a false result or by an exception, makes
\* the outcome of its line Error.
C5_WriteFailureIsError ==
    hl.st = "returned" =>
        \A a \in hl.attempt :
            a.outcome \in {"not_stored", "raises"} => hl.ret = ERROR

\* C6: when a run ends, every discovered file whose own processing did not
\* raise has been picked up, has had its lines handled and is renamed.
C6_FilesIndependent ==
    run.st = "exited" =>
        \A i \in DOMAIN ftask :
            ftask[i].st # "raised" => (ftask[i].st = "done" /\ MarkedNow(ftask[i]))

\* C7: the sequence pool.map returns holds one outcome per line read, the
\* j-th being what handle_line returned for the j-th line, whatever the
\* order in which the line workers finished.
C7_ResultsInInputOrder ==
    \A i \in DOMAIN ftask :
        Collected(ftask[i]) =>
            /\ Len(ftask[i].results) = Len(ftask[i].lines)
            /\ \A j \in 1..Len(ftask[i].lines) :
                  /\ ftask[i].results[j] = ftask[i].ret[j]
                  /\ \E store \in StoreOutcomes :
                        ftask[i].results[j]
                            = handle_line(ftask[i].lines[j], options.dry, store).ret

\* the second line finished first and the two outcomes differ
C7_Witness ==
    \E i \in DOMAIN ftask :
        /\ ftask[i].st = "collected"
        /\ Len(ftask[i].lines) = 2 /\ ftask[i].fin = <<2, 1>>
        /\ ftask[i].results[1] # ftask[i].results[2]

\* the file was renamed by an earlier run
MarkedEarlier(f) == disk[f].marked >= 1 /\ disk[f].marked < run.n

\* the current run selected the file
Selected(f) == \E i \in DOMAIN files_to_work : files_to_work[i] = disk[f].name

NotLoadedAgain(f) ==
    /\ ~Selected(f)
    /\ \A w \in writes : w.ino # f

\* C8, as stated: a file renamed by an earlier run is not selected by a later
\* run with the same pattern, and none of its lines is written again.
C8_RenamedNotSelected ==
    \A f \in DOMAIN disk : MarkedEarlier(f) => NotLoadedAgain(f)

\* C8, amended: the same, for a pattern whose file name part does not begin
\* with a dot.
C8_RenamedNotSelectedUnlessDotPattern ==
    ~IsHidden(options.pattern) =>
        \A f \in DOMAIN disk : MarkedEarlier(f) => NotLoadedAgain(f)

\* a second run selected a file while another one carries the marker of the
\* first run
C8_Witness ==
    /\ run.n = 2 /\ run.st = "exited" /\ ~IsHidden(options.pattern)
    /\ \E f \in DOMAIN disk : MarkedEarlier(f)
    /\ \E g \in DOMAIN disk : Selected(g)

\* C9: with processed = count(Ok) and errors = count(Error), no verdict when
\* processed = 0, otherwise a successful load exactly when
\* errors / processed < 0.01 and a failed load otherwise.
C9_ErrorRateGate ==
    rt.st = "returned" =>
        LET processed == CountOf(rt.results, OK)
            errors == CountOf(rt.results, ERROR)
        IN  rt.verdict = IF processed = 0 THEN "none"
                         ELSE IF errors * 100 < processed THEN "success"
                         ELSE "failed"

\* five tab-separated fields, a device type and a device id, integer app
\* ids and numeric coordinates
WellFormed(line) ==
    LET parts == Split(Strip(line), "\t")
    IN  /\ Len(parts) = 5
        /\ parts[1] # <<>> /\ parts[2] # <<>>
        /\ IsFloatText(parts[3]) /\ IsFloatText(parts[4])
        /\ \A tok \in {Split(parts[5], ",")[k] : k \in 1..Len(Split(parts[5], ","))} :
              IsIntText(tok)

DevTypeOf(line) == Split(Strip(line), "\t")[1]

ConfiguredTypes == {<<"idfa">>, <<"gaid">>, <<"adid">>, <<"dvid">>}

\* C10: a well-formed line whose device type is not in the shard table has
\* the outcome Error and reaches no store step, live or dry.
C10_UnknownTypeNoWrite ==
    (hl.st = "returned" /\ WellFormed(hl.line)
        /\ DevTypeOf(hl.line) \notin ConfiguredTypes)
    => (hl.ret = ERROR /\ hl.attempt = {})

\* a well-formed line of an unknown device type was handled
C10_Witness ==
    /\ hl.st = "returned" /\ WellFormed(hl.line)
    /\ DevTypeOf(hl.line) = <<"IDFA">>
    /\ hl.ret = ERROR

\* the text of a line without its line feed, and its tab-separated fields
Chomp(line) ==
    IF line # <<>> /\ line[Len(line)] = "\n" THEN SubSeq(line, 1, Len(line) - 1)
    ELSE line

RawFields(line) == Split(Chomp(line), "\t")

\* the five fields handle_line sees, when it sees five
Parts(line) == Split(Strip(line), "\t")

HasIdentity(line) ==
    Len(Parts(line)) = 5 /\ Parts(line)[1] # <<>> /\ Parts(line)[2] # <<>>

AppTokens(line) ==
    {Split(Parts(line)[5], ",")[k] : k \in 1..Len(Split(Parts(line)[5], ","))}

GeoParses(line) == IsFloatText(Parts(line)[3]) /\ IsFloatText(Parts(line)[4])

\* C11: in dry-run mode no store is written, and every non-blank line that
\* parses to a record of a configured device type has the outcome Ok.
C11_DryRunOk ==
    (hl.st = "returned" /\ hl.dry) =>
        /\ \A a \in hl.attempt : a.outcome = "logged"
        /\ (/\ Strip(hl.line) # <<>>
            /\ parse_appsinstalled(hl.line).tag = "AppsInstalled"
            /\ parse_appsinstalled(hl.line).rec.dev_type \in ConfiguredTypes)
           => hl.ret = OK

\* C12: a line with an app id that is no integer is not rejected: the call
\* returns, and for a configured device type and numeric coordinates it
\* reaches the store step with the remaining app ids.
C12_BadAppIdKept ==
    (/\ hl.st = "returned" /\ HasIdentity(hl.line)
     /\ \E tok \in AppTokens(hl.line) : ~IsIntText(tok))
    => /\ hl.ret \in {OK, ERROR}
       /\ (DevTypeOf(hl.line) \in ConfiguredTypes /\ GeoParses(hl.line))
             => hl.attempt # {}

\* C13: a line whose latitude or longitude is no number is retained: the
\* call returns Ok or Error without raising, Ok in dry-run mode.
C13_BadGeoKept ==
    (/\ hl.st = "returned" /\ HasIdentity(hl.line)
     /\ \A tok \in AppTokens(hl.line) : IsIntText(tok)
     /\ ~GeoParses(hl.line)
     /\ DevTypeOf(hl.line) \in ConfiguredTypes)
    => /\ parse_appsinstalled(hl.line).tag = "AppsInstalled"
       /\ hl.ret \in {OK, ERROR}
       /\ hl.dry => hl.ret = OK

\* C14: a non-blank line of fewer than five fields, or with an empty device
\* type or device id, is rejected by the parser: the outcome is Error and
\* no store step is reached.
C14_MalformedRejected ==
    (/\ hl.st = "returned" /\ Strip(hl.line) # <<>>
     /\ \/ Len(RawFields(hl.line)) < 5
        \/ RawFields(hl.line)[1] = <<>>
        \/ RawFields(hl.line)[2] = <<>>)
    => /\ parse_appsinstalled(hl.line).tag = "None"
       /\ hl.ret = ERROR
       /\ hl.attempt = {}

\* C15: in live mode a line that parses to a record of a configured device
\* type makes exactly one write attempt, to the address of its device type
\* and with the key "<device type>:<device id>"; any other line makes none.
C15_OneWritePerRoutedLine ==
    (hl.st = "returned" /\ ~hl.dry) =>
        LET p == parse_appsinstalled(hl.line)
            routed == /\ Strip(hl.line) # <<>>
                      /\ p.tag = "AppsInstalled"
                      /\ p.rec.dev_type \in ConfiguredTypes
        IN  /\ routed =>
                  /\ Cardinality(hl.attempt) = 1
                  /\ \A a \in hl.attempt :
                        /\ a.addr = device_memc[p.rec.dev_type]
                        /\ a.key = p.rec.dev_type \o <<":">> \o p.rec.dev_id
            /\ ~routed => hl.attempt = {}

\* process_file calls that have begun and not yet returned or raised
FilesInProcess ==
    {i \in DOMAIN ftask : ftask[i].st \in {"mapping", "collected", "renamed"}}

\* the line workers of call i that are inside handle_line
LinesInFlight(i) == Cardinality(RunningChunks(ftask[i].m))

RECURSIVE SumInFlight(_)
SumInFlight(n) == IF n = 0 THEN 0 ELSE LinesInFlight(n) + SumInFlight(n - 1)

\* C16: at most MAX_FILE_THREADS files are being processed at once, at most
\* MAX_LINE_THREADS lines of any one file are in flight, and so at most
\* MAX_FILE_THREADS * MAX_LINE_THREADS line handlers in the whole process.
C16_BoundedConcurrency ==
    /\ Cardinality(FilesInProcess) <= MAX_FILE_THREADS
    /\ Cardinality(RunningChunks(fpool)) <= MAX_FILE_THREADS
    /\ \A i \in DOMAIN ftask : LinesInFlight(i) <= MAX_LINE_THREADS
    /\ SumInFlight(Len(ftask)) <= MAX_FILE_THREADS * MAX_LINE_THREADS

\* every line thread of every file thread is inside handle_line
C16_Witness ==
    /\ Cardinality(FilesInProcess) = MAX_FILE_THREADS
    /\ SumInFlight(Len(ftask)) = MAX_FILE_THREADS * MAX_LINE_THREADS

\* a file has a line waiting for a free line thread
C16_LineWaits ==
    \E i \in DOMAIN ftask :
        /\ LinesInFlight(i) = MAX_LINE_THREADS
        /\ QueuedChunks(ftask[i].m) # {}

\* an exception left a process_file call of the current run
SomeTaskRaised == \E i \in DOMAIN ftask : ftask[i].st = "raised"

\* no step takes the completion marker off a file
RenameNeverUndone ==
    \A f \in DOMAIN disk :
        disk[f].marked # 0 =>
            /\ disk'[f].marked # 0
            /\ IsHidden(disk'[f].name)
            /\ Len(disk'[f].name) >= Len(disk[f].name)

\* C18: the process exits with 1 when an exception left main, that is when
\* one left a file task, and with 1 only then; and a file that was renamed
\* stays renamed, through the exit and after it.
C18_ExitOneIffRaised ==
    /\ [](run.st = "exited" => (run.exit = 1 <=> SomeTaskRaised))
    /\ [](run.st = "exited" => run.exit \in {0, 1})
    /\ [][RenameNeverUndone]_vars

\* a run ended with 1 and a file it renamed carries the marker
C18_Witness ==
    /\ run.st = "exited" /\ run.exit = 1 /\ SomeTaskRaised
    /\ \E i \in DOMAIN ftask : ftask[i].st = "done" /\ MarkedNow(ftask[i])

\* the store writes of the current run for line j of file f
WritesOf(f, j) == {w \in writes : w.ino = f /\ w.line = j}

\* C19: when a run ends, every discovered file was processed by one
\* process_file call and by no other, every one of its lines was handled,
\* no line was written more than once, and the file was renamed by the call
\* that processed it or not at all.
C19_EachFileAndLineOnce ==
    /\ \A i, k \in DOMAIN ftask :
          (i # k /\ ftask[i].ino # 0) => ftask[i].ino # ftask[k].ino
    /\ \A i \in DOMAIN ftask :
          \A j \in 1..Len(ftask[i].lines) :
              Cardinality(WritesOf(ftask[i].ino, j)) <= 1
    /\ \A f \in DOMAIN disk :
          disk[f].marked = run.n =>
              \E i \in DOMAIN ftask :
                  ftask[i].ino = f /\ ftask[i].st \in {"renamed", "done"}
    /\ run.st = "exited" =>
          \A i \in DOMAIN ftask :
              /\ ftask[i].st # "queued"
              /\ \A j \in 1..Len(disk[ftask[i].ino].lines) :
                    ftask[i].ret[j] # "none"

\* C20: a file is renamed only if every one of its lines returned an
\* outcome; a file with a line whose handler raised is not renamed by that
\* run, the next run with the same pattern selects it again, and by its end
\* has repeated the store writes the earlier run made for that file.
C20_RaisedFileLoadedAgain ==
    /\ \A i \in DOMAIN ftask :
          MarkedNow(ftask[i]) =>
              \A j \in 1..Len(ftask[i].lines) : ftask[i].ret[j] \in HandleLineResult
    /\ \A i \in DOMAIN ftask :
          (\E j \in 1..Len(ftask[i].lines) : ftask[i].ret[j] = RAISED)
              => ~MarkedNow(ftask[i])
    /\ \A f \in earlier.raised :
          run.st \in {"map", "exited"} => Selected(f)
    /\ run.st = "exited" =>
          \A a \in earlier.attempts :
              a.ino \in earlier.raised =>
                  \E w \in WritesOf(a.ino, a.line) :
                      w.at.addr = a.addr /\ w.at.key = a.key

\* every discovered file had all its lines handled and carries the marker
AllFilesLoaded ==
    \A i \in DOMAIN ftask :
        /\ ftask[i].st = "done" /\ MarkedNow(ftask[i])
        /\ Len(ftask[i].results) = Len(disk[ftask[i].ino].lines)
        /\ \A j \in 1..Len(ftask[i].results) : ftask[i].results[j] \in HandleLineResult

\* C17: a run in which no exception leaves a line handler terminates, and it
\* ends with exit code 0 after every discovered file has had all of its lines
\* handled and has been renamed.
C17_RunsToCompletion ==
    /\ (run.st = "start") ~> (run.st = "exited" \/ SomeTaskRaised)
    /\ []((run.st = "exited" /\ ~SomeTaskRaised) => (run.exit = 0 /\ AllFilesLoaded))

\* a run over as many files as there are file threads ended with 0, every
\* file loaded and renamed, a line of one of them written
C17_Witness ==
    /\ run.st = "exited" /\ run.exit = 0
    /\ Len(ftask) = MAX_FILE_THREADS
    /\ AllFilesLoaded
    /\ \E i \in DOMAIN ftask : \E j \in 1..Len(ftask[i].results) :
          ftask[i].results[j] = OK

====
